---- MODULE Spec2Model ----
(***************************************************************************)
(* Model of the browser-extension page scripts and background worker.      *)
(*                                                                         *)
(*   Spec           the page content script that carries the debounced     *)
(*                  auto-optimize trigger (src/src/components/             *)
(*                  SimpleRefiner.tsx, lines 318-1238)                     *)
(*   SpecContent    the basic page content script (src/src/content.ts)     *)
(*   SpecBackground the background worker (src/unnamed/part_001, 251-330)  *)
(*                                                                         *)
(* Time is counted in ticks of one second: the 2000 ms debounce delay is   *)
(* DebounceTicks.  A pending timer carries the ticks left before it may    *)
(* fire; a timer never fires early and may fire late.                      *)
(***************************************************************************)
EXTENDS Integers, Sequences, FiniteSets, TLC

\* ------------------------------------------------------------------ bounds
MaxElems == 1          \* textarea nodes the host page may create
MaxCalls == 2          \* remote calls that may be outstanding together
MaxClicks == 1         \* clicks whose storage/message steps may overlap
MaxChains == 1         \* checkForInput chains that may be pending together
MaxMsgs == 2           \* background messages whose writes may overlap
MaxNodes == 2          \* textarea nodes in the document given to the locator
MaxRequests == 3       \* HTTP requests the popup makes in one behaviour
MaxTurns == 4          \* HTTP requests of the popup when its user drives it

\* ------------------------------------------------------- program constants
MinLength == 10        \* currentValue.length > 10
DebounceTicks == 2     \* setTimeout(..., 2000)
maxAttempts == 10      \* checkForInput retries

\* -------------------------------------------------------------------- data
NoElem == 0
Elems == 1..MaxElems
Null == 0              \* a null timer handle

ShortText == "fix typo"
LongA == "summarize this report"
LongB == "summarize the attached report"
Texts == {"", ShortText, LongA, LongB}
Blank == "   "
Padded == "  fix typo  "
Selections == Texts \cup {Blank, Padded}

\* String.prototype.trim of the selections above
Trim(t) == IF t = Blank THEN "" ELSE IF t = Padded THEN ShortText ELSE t

\* String.prototype.length of the texts above
TextLen == [t \in Texts |->
              CASE t = "" -> 0
                [] t = ShortText -> 8
                [] t = LongA -> 21
                [] t = LongB -> 29]

Min(a, b) == IF a < b THEN a ELSE b

VARIABLES
  \* host page and host browser
  isChatGPT,            \* window.location.hostname.includes('chat.openai.com')
  found,                \* the node findChatGPTInput() returns now (NoElem: null)
  value,                \* value[e]: the .value of textarea node e
  listeners,            \* nodes that carry the handleInputChange listener
  chromeState,          \* "ok", "invalidated" (calls throw), "gone" (APIs undefined)
  storage,              \* chrome.storage.local: selectedText
  \* module state of the page script
  buttonDiv, tooltipDiv, inDocument, isVisible, placement,
  chatInputField, lastInputValue, isOptimizing, optimizationTimeout,
  isExtensionValid,
  \* pending callbacks of the page script
  timers,               \* pending debounce timers
  calls,                \* outstanding optimizePrompt calls
  checker,              \* the checkForInput retry chain of monitorChatGPTInput
  burst,                \* mount-burst repositions of init() already run
  clicks,               \* handleButtonClick promise chains in progress
  \* observation of the last step
  sinceLast,            \* ticks since the last user input event on the anchor
  lastStep,             \* which handler ran last, and what it observed
  \* background worker
  lastSelectedText,     \* the worker's module variable
  requests,             \* requests[m]: the m-th event delivered to the worker
  writes,               \* chrome.storage.local.set calls not yet called back
  popupLog,             \* completed writes and popup openings, in order
  acks,                 \* acks[m]: the responses passed to sendResponse for m
  \* inputs of the functions checked on their own
  document,             \* the textarea nodes of the host page, in document order
  window,               \* innerWidth, innerHeight and the anchor's client rect
  buttonStyle,          \* the left and top the positioner computed for the control
  \* popup: the API client and the components that call it
  sent,                 \* the HTTP requests the client has made, in order
  inflight,             \* requests awaiting the server, with their continuation
  apiResult,            \* how the last call of the client settled
  popup,                \* state of the Popup and OneClickOptimizer components
  form,                 \* state of the PromptOptimizer component
  result,               \* the overall scores of the result handed to a view
  scoreOverview         \* the scores and the improvement the view shows

pageVars == <<buttonDiv, tooltipDiv, inDocument, isVisible, placement,
              chatInputField, lastInputValue, isOptimizing,
              optimizationTimeout, isExtensionValid>>
hostVars == <<isChatGPT, found, value, listeners, chromeState, storage>>
taskVars == <<timers, calls, checker, burst, clicks>>
bgVars == <<lastSelectedText, requests, writes, popupLog, acks>>
apiVars == <<sent, inflight, apiResult, popup, form>>
viewVars == <<result, scoreOverview>>
fnVars == <<document, window, buttonStyle, apiVars, viewVars>>
vars == <<hostVars, pageVars, taskVars, sinceLast, lastStep, bgVars, fnVars>>

\* The record kept in lastStep: the handler that ran (op), how it ended or
\* the type of the message it was given (note), the text of that message
\* (arg) and the responses it passed to sendResponse, or the message it
\* handed to chrome.runtime.sendMessage (replies).
StepMsg(op, note, arg, replies) ==
  [op |-> op, note |-> note, arg |-> arg, replies |-> replies]
StepFull(op, note, replies) == StepMsg(op, note, "", replies)
Step(op) == StepFull(op, "", <<>>)

\* ===================================================================
\* Page content script: src/src/components/SimpleRefiner.tsx 318-1238
\* ===================================================================

isExtensionContextValid == isExtensionValid /\ chromeState # "gone"

\* The inline position of the control: the node whose rect its left and top
\* were computed from (NoElem: left and top not set), and whether right and
\* bottom are set to the fixed corner offsets.  A new control has neither.
NoPlacement == [leftTop |-> NoElem, rightBottom |-> FALSE]

createFloatingButton ==
  IF buttonDiv
    THEN UNCHANGED <<buttonDiv, tooltipDiv, inDocument>>
    ELSE /\ buttonDiv' = TRUE
         /\ tooltipDiv' = TRUE
         /\ inDocument' = inDocument \cup {"button", "tooltip"}

\* Creates the control when it is missing, then sets its left and top from
\* the rect of the node the locator returns, or its right and bottom to the
\* corner offsets; neither branch clears what the other has set.
positionButtonNearInput ==
  /\ createFloatingButton
  /\ isVisible' = TRUE
  /\ IF found # NoElem /\ isChatGPT
       THEN /\ chatInputField' = found
            /\ placement' = [placement EXCEPT !.leftTop = found]
       ELSE /\ placement' = [placement EXCEPT !.rightBottom = TRUE]
            /\ UNCHANGED chatInputField

clearTimeout(id) == {t \in timers : t.id # id}

\* The handle setTimeout returns: one no pending timer has once the timer
\* named by optimizationTimeout is cleared.
FreshTimer ==
  CHOOSE i \in 1..(Cardinality(timers) + 1) :
    \A t \in clearTimeout(optimizationTimeout) : t.id # i

trigVars == <<lastInputValue, optimizationTimeout, timers>>

\* A listener that arms a new timer without clearing the previous one.
handleInputChange_noClear(v, src) ==
  IF ~isChatGPT \/ chatInputField = NoElem \/ isOptimizing
    THEN UNCHANGED trigVars
    ELSE IF TextLen[v] > MinLength /\ v # lastInputValue
           THEN /\ lastInputValue' = v
                /\ timers' = timers \cup
                     {[id |-> FreshTimer, text |-> v,
                       left |-> DebounceTicks, src |-> src]}
                /\ optimizationTimeout' = FreshTimer
           ELSE UNCHANGED trigVars

\* The listener body, run for an input event whose target holds v.  src
\* records who dispatched the event: "user", "own" (the overwrite made by the
\* debounce callback) or "popup" (the overwrite asked by the popup).
handleInputChange(v, src) ==
  IF ~isChatGPT \/ chatInputField = NoElem \/ isOptimizing
    THEN UNCHANGED trigVars
    ELSE IF TextLen[v] > MinLength /\ v # lastInputValue
           THEN /\ lastInputValue' = v
                /\ timers' = clearTimeout(optimizationTimeout) \cup
                     {[id |-> FreshTimer, text |-> v,
                       left |-> DebounceTicks, src |-> src]}
                /\ optimizationTimeout' = FreshTimer
           ELSE UNCHANGED trigVars

\* element.value = newText, then the synthetic input event (the change event
\* has no listener in this script).
replaceInputText(newText, src) ==
  IF chatInputField = NoElem
    THEN UNCHANGED <<value, trigVars>>
    ELSE /\ value' = [value EXCEPT ![chatInputField] = newText]
         /\ IF chatInputField \in listeners
              THEN handleInputChange(newText, src)
              ELSE UNCHANGED trigVars

\* optimizePrompt with a catch block that returns nothing.
optimizePrompt_emptyOnFailure(prompt, outcome, optimized) ==
  IF outcome = "ok" /\ optimized # "" THEN optimized
  ELSE IF outcome = "ok" THEN prompt ELSE ""

\* What optimizePrompt resolves to: the server's optimized_prompt when the
\* request succeeds and the field is non-empty, the prompt itself otherwise
\* (also on a network failure, a non-2xx status or an unparsable body).
optimizePrompt(prompt, outcome, optimized) ==
  IF outcome = "ok" /\ optimized # "" THEN optimized ELSE prompt

\* A teardown that drops the timer handle without clearTimeout and keeps the
\* last seen text.
cleanup_keepsTimer ==
  /\ isExtensionValid' = FALSE
  /\ IF buttonDiv /\ "button" \in inDocument
       THEN buttonDiv' = FALSE /\ placement' = NoPlacement
       ELSE UNCHANGED <<buttonDiv, placement>>
  /\ IF tooltipDiv /\ "tooltip" \in inDocument
       THEN tooltipDiv' = FALSE
       ELSE UNCHANGED tooltipDiv
  /\ inDocument' = inDocument
        \ ((IF buttonDiv THEN {"button"} ELSE {}) \cup
           (IF tooltipDiv THEN {"tooltip"} ELSE {}))
  /\ isVisible' = FALSE
  /\ chatInputField' = NoElem
  /\ isOptimizing' = FALSE
  /\ optimizationTimeout' = Null
  /\ UNCHANGED <<timers, lastInputValue>>

cleanupOnContextInvalidation ==
  /\ isExtensionValid' = FALSE
  /\ IF buttonDiv /\ "button" \in inDocument
       THEN buttonDiv' = FALSE /\ placement' = NoPlacement
       ELSE UNCHANGED <<buttonDiv, placement>>
  /\ IF tooltipDiv /\ "tooltip" \in inDocument
       THEN tooltipDiv' = FALSE
       ELSE UNCHANGED tooltipDiv
  /\ inDocument' = inDocument
        \ ((IF buttonDiv THEN {"button"} ELSE {}) \cup
           (IF tooltipDiv THEN {"tooltip"} ELSE {}))
  /\ isVisible' = FALSE
  /\ chatInputField' = NoElem
  /\ lastInputValue' = ""
  /\ isOptimizing' = FALSE
  /\ IF optimizationTimeout # Null
       THEN /\ timers' = clearTimeout(optimizationTimeout)
            /\ optimizationTimeout' = Null
       ELSE UNCHANGED <<timers, optimizationTimeout>>

\* ---------------------------------------------------------- page actions

\* The user edits textarea e so that it holds v; the browser dispatches input.
UserInput(e, v) ==
  /\ value' = [value EXCEPT ![e] = v]
  /\ IF e \in listeners
       THEN handleInputChange(v, "user")
       ELSE UNCHANGED trigVars
  /\ sinceLast' = IF e \in listeners /\ e = chatInputField
                    THEN 0 ELSE sinceLast
  /\ lastStep' = Step("input")
  /\ UNCHANGED <<isChatGPT, found, listeners, chromeState, storage,
                 buttonDiv, tooltipDiv, inDocument, isVisible, placement,
                 chatInputField, isOptimizing, isExtensionValid,
                 calls, checker, burst, clicks, bgVars, fnVars>>

\* One second passes.
Tick ==
  /\ \/ sinceLast < DebounceTicks
     \/ \E t \in timers : t.left > 0
  /\ timers' = {[t EXCEPT !.left = IF t.left > 0 THEN t.left - 1 ELSE 0] :
                  t \in timers}
  /\ sinceLast' = Min(sinceLast + 1, DebounceTicks)
  /\ lastStep' = Step("tick")
  /\ UNCHANGED <<hostVars, pageVars, calls, checker, burst, clicks,
                 bgVars, fnVars>>

FreshCall == CHOOSE i \in 1..MaxCalls : \A c \in calls : c.id # i

\* The debounce timer t elapses: the callback passed to setTimeout, up to its
\* await.
debounceCallback(t) ==
  /\ t \in timers
  /\ t.left = 0
  /\ timers' = timers \ {t}
  /\ IF TextLen[t.text] > MinLength /\ ~isOptimizing
       THEN /\ Cardinality(calls) < MaxCalls
            /\ isOptimizing' = TRUE
            /\ calls' = calls \cup
                 {[id |-> FreshCall, text |-> t.text]}
            /\ lastStep' = Step("callStart")
       ELSE /\ UNCHANGED <<isOptimizing, calls>>
            /\ lastStep' = Step("timerSkip")
  /\ UNCHANGED <<hostVars, buttonDiv, tooltipDiv, inDocument, isVisible,
                 placement, chatInputField, lastInputValue,
                 optimizationTimeout, isExtensionValid, checker, burst,
                 clicks, sinceLast, bgVars, fnVars>>

\* The fetch of call c settles: the rest of the debounce callback.
debounceResume(c, outcome, optimized) ==
  /\ c \in calls
  /\ calls' = calls \ {c}
  /\ LET optimizedText == optimizePrompt(c.text, outcome, optimized) IN
       IF optimizedText # c.text
         THEN replaceInputText(optimizedText, "own")
         ELSE UNCHANGED <<value, trigVars>>
  /\ isOptimizing' = FALSE
  /\ lastStep' =
       StepMsg(IF outcome = "ok" THEN "callOk" ELSE "callFailed",
               IF optimizePrompt(c.text, outcome, optimized) # c.text
                    /\ chatInputField # NoElem
                 THEN "dispatched" ELSE "",
               optimizePrompt(c.text, outcome, optimized),
               <<>>)
  /\ UNCHANGED <<isChatGPT, found, listeners, chromeState, storage,
                 buttonDiv, tooltipDiv, inDocument, isVisible, placement,
                 chatInputField, isExtensionValid, checker, burst, clicks, sinceLast, bgVars, fnVars>>

\* chrome.runtime.onSuspend listener.
onSuspend ==
  /\ cleanupOnContextInvalidation
  /\ lastStep' = Step("cleanup")
  /\ UNCHANGED <<hostVars, calls, checker, burst, clicks, sinceLast,
                 bgVars, fnVars>>

\* The body shared by the MutationObserver callback and the setInterval
\* callback of monitorChatGPTInput.
\* A callback that re-anchors whenever the locator returns a node, whether
\* or not it is the anchor already.
monitorCallback_noIdentityCheck(op) ==
  /\ isChatGPT
  /\ found # NoElem
  /\ chatInputField' = found
  /\ listeners' = listeners \cup {found}
  /\ positionButtonNearInput
  /\ lastStep' = Step(op)
  /\ UNCHANGED <<isChatGPT, found, value, chromeState, storage,
                 lastInputValue, isOptimizing, optimizationTimeout,
                 isExtensionValid, taskVars, sinceLast, bgVars, fnVars>>

monitorCallback(op) ==
  /\ isChatGPT
  /\ found # NoElem
  /\ found # chatInputField
  /\ chatInputField' = found
  /\ listeners' = listeners \cup {found}
  /\ positionButtonNearInput
  /\ lastStep' = Step(op)
  /\ UNCHANGED <<isChatGPT, found, value, chromeState, storage,
                 lastInputValue, isOptimizing, optimizationTimeout,
                 isExtensionValid, taskVars, sinceLast, bgVars, fnVars>>

monitorObserver == monitorCallback("observer")
monitorInterval == monitorCallback("interval")

\* The host page re-renders: the locator now returns node e (or nothing).
HostRender(e) ==
  /\ e # found
  /\ found' = e
  /\ lastStep' = Step("render")
  /\ UNCHANGED <<isChatGPT, value, listeners, chromeState, storage,
                 pageVars, taskVars, sinceLast, bgVars, fnVars>>

\* checkForInput of monitorChatGPTInput: a chain whose closure has counted
\* `attempts` retries so far.
checkForInput(attempts) ==
  /\ attempts \in checker
  /\ IF found # NoElem
       THEN /\ chatInputField' = found
            /\ listeners' = listeners \cup {found}
            /\ positionButtonNearInput
            /\ checker' = checker \ {attempts}
       ELSE /\ checker' = (checker \ {attempts}) \cup
                  (IF attempts < maxAttempts THEN {attempts + 1} ELSE {})
            /\ UNCHANGED <<listeners, pageVars>>
  /\ lastStep' = Step("checkForInput")
  /\ UNCHANGED <<isChatGPT, found, value, chromeState, storage,
                 lastInputValue, isOptimizing, optimizationTimeout,
                 isExtensionValid, timers, calls, burst, clicks,
                 sinceLast, bgVars, fnVars>>

\* The four mount-burst timeouts of init (100 ms, 1 s, 2 s, 5 s); all but the
\* first test buttonDiv.
initBurst ==
  /\ burst < 4
  /\ burst' = burst + 1
  /\ IF burst = 0 \/ buttonDiv
       THEN positionButtonNearInput
       ELSE UNCHANGED <<buttonDiv, tooltipDiv, inDocument, isVisible,
                        placement, chatInputField>>
  /\ lastStep' = Step("burst")
  /\ UNCHANGED <<hostVars, lastInputValue, isOptimizing, optimizationTimeout,
                 isExtensionValid, timers, calls, checker, clicks,
                 sinceLast, bgVars, fnVars>>

\* The resize and scroll listeners of init.
onResizeOrScroll ==
  /\ buttonDiv /\ isVisible
  /\ positionButtonNearInput
  /\ lastStep' = Step("scroll")
  /\ UNCHANGED <<hostVars, lastInputValue, isOptimizing, optimizationTimeout,
                 isExtensionValid, taskVars, sinceLast, bgVars, fnVars>>

\* urlObserver: the timeout that runs one second after the URL changed.
urlObserver ==
  /\ Cardinality(checker) < MaxChains
  /\ positionButtonNearInput
  /\ checker' = IF isChatGPT THEN checker \cup {0} ELSE checker
  /\ lastStep' = Step("navigate")
  /\ UNCHANGED <<hostVars, lastInputValue, isOptimizing, optimizationTimeout,
                 isExtensionValid, timers, calls, burst, clicks,
                 sinceLast, bgVars, fnVars>>

\* A capture that prefers the page selection to the anchored input.
capturedText_selectionFirst(selection) ==
  IF Trim(selection) # "" THEN Trim(selection)
  ELSE IF isChatGPT /\ chatInputField # NoElem
         THEN value[chatInputField] ELSE ""

\* The text a click or a GET_SELECTED_TEXT message captures.
capturedText(selection) ==
  LET fromInput == IF isChatGPT /\ chatInputField # NoElem
                     THEN value[chatInputField] ELSE ""
  IN IF fromInput # "" THEN fromInput
     ELSE IF Trim(selection) # "" THEN Trim(selection) ELSE ""

\* chrome.runtime.onMessage listener of the page script.
onMessage(type, text, selection) ==
  /\ IF type = "REPLACE_CHATGPT_TEXT" /\ isChatGPT /\ chatInputField # NoElem
       THEN replaceInputText(text, "popup")
       ELSE UNCHANGED <<value, trigVars>>
  /\ lastStep' =
       StepMsg("message", type,
         IF type = "REPLACE_CHATGPT_TEXT" THEN text ELSE "",
         CASE type = "GET_SELECTED_TEXT" ->
                <<[text |-> capturedText(selection)]>>
           [] type = "GET_CHATGPT_TEXT" ->
                <<[text |-> IF isChatGPT /\ chatInputField # NoElem
                              THEN value[chatInputField] ELSE ""]>>
           [] type = "REPLACE_CHATGPT_TEXT" ->
                IF isChatGPT /\ chatInputField # NoElem
                  THEN <<[success |-> TRUE, error |-> ""]>>
                  ELSE <<[success |-> FALSE,
                          error |-> "ChatGPT input not found"]>>
           [] OTHER -> <<>>)
  /\ UNCHANGED <<isChatGPT, found, listeners, chromeState, storage,
                 buttonDiv, tooltipDiv, inDocument, isVisible, placement,
                 chatInputField, isOptimizing, isExtensionValid,
                 calls, checker, burst, clicks, sinceLast, bgVars, fnVars>>


\* ------------------------------------------- guarded storage and messaging

FreshClick == CHOOSE i \in 1..MaxClicks : \A k \in clicks : k.id # i

\* How safeChromeStorageSet(key, value) settles at once, or "pending" when
\* chrome.storage.local.set accepted the write.  An exception thrown by the
\* call inside the Promise executor rejects the promise; the catch block of
\* the wrapper is not entered.
safeChromeStorageSet ==
  IF ~isExtensionContextValid THEN "skipped"
  ELSE IF chromeState = "invalidated" THEN "rejected"
  ELSE "pending"

\* The same for safeChromeRuntimeSendMessage(message).
safeChromeRuntimeSendMessage ==
  IF ~isExtensionContextValid THEN "skipped"
  ELSE IF chromeState = "invalidated" THEN "rejected"
  ELSE "pending"

\* Click on the floating control: handleButtonClick up to the first await.
handleButtonClick(selection) ==
  /\ buttonDiv /\ "button" \in inDocument
  /\ Cardinality(clicks) < MaxClicks
  /\ LET textToOptimize == capturedText(selection)
         how == safeChromeStorageSet
     IN /\ clicks' =
             CASE how = "pending" ->
                    clicks \cup {[id |-> FreshClick, pc |-> "storing",
                                  text |-> textToOptimize,
                                  stored |-> FALSE]}
               [] how = "skipped" ->
                    clicks \cup {[id |-> FreshClick, pc |-> "delay",
                                  text |-> textToOptimize,
                                  stored |-> FALSE]}
               [] OTHER -> clicks
        /\ lastStep' = StepMsg("click", how, selection, <<>>)
  /\ UNCHANGED <<hostVars, pageVars, timers, calls, checker, burst,
                 sinceLast, bgVars, fnVars>>

\* The callback of chrome.storage.local.set for click k: the write is done,
\* or chrome.runtime.lastError is set and the promise rejects into the
\* .catch of handleButtonClick.
storageSetCallback(k) ==
  /\ k \in clicks
  /\ k.pc = "storing"
  /\ IF chromeState = "ok"
       THEN /\ storage' = k.text
            /\ clicks' = (clicks \ {k}) \cup
                           {[k EXCEPT !.pc = "delay", !.stored = TRUE]}
            /\ lastStep' = StepFull("stored", "resolved", <<>>)
       ELSE /\ UNCHANGED storage
            /\ clicks' = clicks \ {k}
            /\ lastStep' = StepFull("stored", "rejected", <<>>)
  /\ UNCHANGED <<isChatGPT, found, value, listeners, chromeState, pageVars,
                 timers, calls, checker, burst, sinceLast, bgVars, fnVars>>

\* The 100 ms timeout of click k: safeChromeRuntimeSendMessage.
sendOpenPopup(k) ==
  /\ k \in clicks
  /\ k.pc = "delay"
  /\ clicks' = clicks \ {k}
  /\ LET how == safeChromeRuntimeSendMessage IN
       lastStep' = StepFull("send", how,
                     IF how = "pending"
                       THEN <<[type |-> "OPEN_POPUP_WITH_TEXT",
                               text |-> k.text]>>
                       ELSE <<>>)
  /\ UNCHANGED <<hostVars, pageVars, timers, calls, checker, burst,
                 sinceLast, bgVars, fnVars>>

\* The host browser invalidates the extension context of the page: the
\* chrome APIs stay defined and throw when called, or are no longer defined.
ContextInvalidated(s) ==
  /\ chromeState = "ok"
  /\ chromeState' = s
  /\ lastStep' = StepFull("invalidate", s, <<>>)
  /\ UNCHANGED <<isChatGPT, found, value, listeners, storage, pageVars,
                 taskVars, sinceLast, bgVars, fnVars>>

\* ------------------------------------------------- the page specification

NoRequest == [type |-> "none", text |-> ""]

BgInit ==
  /\ lastSelectedText = ""
  /\ requests = [m \in 1..MaxMsgs |-> NoRequest]
  /\ writes = {}
  /\ popupLog = <<>>
  /\ acks = [m \in 1..MaxMsgs |-> <<>>]

NoWindow == [innerWidth |-> 0, innerHeight |-> 0,
             rect |-> [left |-> 0, top |-> 0, width |-> 0, height |-> 0]]
NoStyle == [left |-> 0, top |-> 0, buttonSize |-> 0, padding |-> 0,
            chosen |-> "", gap |-> 0, margin |-> 0]

NoData == [detail |-> "", error |-> "", message |-> "",
           optimized_prompt |-> "", original |-> 0, optimized |-> 0]
NoResponse == [kind |-> "", status |-> 0, data |-> NoData]
NoResult == [op |-> "", response |-> NoResponse, threw |-> FALSE,
             message |-> <<>>, value |-> FALSE]

\* Scores are held in tenths: 85 is 8.5.
NoScores == [original |-> 0, optimized |-> 0]
NoOverview == [original |-> 0, optimized |-> 0, improvement |-> 0,
               shown |-> FALSE]

ViewInit ==
  /\ result = NoScores
  /\ scoreOverview = NoOverview

\* A field the server's JSON leaves out reads as undefined.
Absent == "<undefined>"

\* The state of OneClickOptimizer after useState, for initialText = '', with
\* the state of the Popup component that renders it: selectedText, and the
\* reads its effect has started and not yet been called back for.
NoPopup == [error |-> <<>>, isConnected |-> FALSE, isOptimizing |-> FALSE,
            currentIteration |-> 0, optimizationHistory |-> <<>>,
            initialText |-> "", currentPrompt |-> "",
            selectedText |-> "", reads |-> {}]

\* The popup after construction, before the effect that runs on mount.
ApiInit ==
  /\ sent = <<>>
  /\ inflight = {}
  /\ apiResult = NoResult
  /\ popup = NoPopup
  /\ form = [error |-> <<>>, isConnected |-> FALSE, isOptimizing |-> FALSE,
             result |-> NoData]

\* The page specifications leave the function inputs empty.
FnInit ==
  /\ document = <<>>
  /\ window = NoWindow
  /\ buttonStyle = NoStyle
  /\ ApiInit
  /\ ViewInit

\* The state once init() has returned on a freshly loaded page.
Init ==
  /\ isChatGPT \in BOOLEAN
  /\ found \in Elems \cup {NoElem}
  /\ value = [e \in Elems |-> ""]
  /\ listeners = {}
  /\ chromeState = "ok"
  /\ storage = ""
  /\ buttonDiv = TRUE
  /\ tooltipDiv = TRUE
  /\ inDocument = {"button", "tooltip"}
  /\ isVisible = FALSE
  /\ placement = NoPlacement
  /\ chatInputField = NoElem
  /\ lastInputValue = ""
  /\ isOptimizing = FALSE
  /\ optimizationTimeout = Null
  /\ isExtensionValid = TRUE
  /\ timers = {}
  /\ calls = {}
  /\ checker = IF isChatGPT THEN {0} ELSE {}
  /\ burst = 0
  /\ clicks = {}
  /\ sinceLast = DebounceTicks
  /\ lastStep = Step("init")
  /\ BgInit
  /\ FnInit

\* The debounced trigger, the monitor callbacks, the popup's messages and
\* the teardown.  The checkForInput chain and the mount burst are scheduled
\* in SpecMount, the floating control's click in SpecButton.
Next ==
  \/ \E e \in Elems, v \in Texts : UserInput(e, v)
  \/ Tick
  \/ \E t \in timers : debounceCallback(t)
  \/ \E c \in calls, outcome \in {"ok", "http", "network"}, o \in Texts :
       debounceResume(c, outcome, o)
  \/ onSuspend
  \/ monitorObserver
  \/ monitorInterval
  \/ \E e \in Elems \cup {NoElem} : HostRender(e)
  \/ \E type \in {"REPLACE_CHATGPT_TEXT", "GET_CHATGPT_TEXT"},
        text \in Texts : onMessage(type, text, "")

Spec == Init /\ [][Next]_vars

\* The floating control's click with its guarded storage and messaging
\* calls, while the host invalidates the extension context.
NextButton ==
  \/ \E e \in Elems, v \in {"", ShortText} : UserInput(e, v)
  \/ \E e \in Elems \cup {NoElem} : HostRender(e)
  \/ monitorInterval
  \/ onResizeOrScroll
  \/ onSuspend
  \/ \E type \in {"GET_SELECTED_TEXT", "PING"}, sel \in Selections :
       onMessage(type, "", sel)
  \/ \E sel \in Selections : handleButtonClick(sel)
  \/ \E k \in clicks : storageSetCallback(k)
  \/ \E k \in clicks : sendOpenPopup(k)
  \/ \E s \in {"invalidated", "gone"} : ContextInvalidated(s)

SpecButton == Init /\ [][NextButton]_vars

\* Mounting and re-locating: the reposition triggers and the monitor.
\* The nodes the host page may render as its chat input while the page
\* script mounts and re-mounts.
PageNodes == 1..MaxNodes

NextMount ==
  \/ \E e \in PageNodes \cup {NoElem} : HostRender(e)
  \/ initBurst
  \/ onResizeOrScroll
  \/ urlObserver
  \/ \E a \in checker : checkForInput(a)
  \/ monitorObserver
  \/ monitorInterval
  \/ onSuspend

SpecMount == Init /\ [][NextMount]_vars

\* The interval of monitorChatGPTInput keeps firing every second.
SpecMountFair == SpecMount /\ WF_vars(monitorInterval)

\* ===================================================================
\* Basic page content script: src/src/content.ts
\* ===================================================================

content_positionButtonNearInput ==
  IF ~buttonDiv
    THEN UNCHANGED <<buttonDiv, tooltipDiv, inDocument, isVisible,
                     placement, chatInputField>>
    ELSE /\ UNCHANGED <<buttonDiv, tooltipDiv, inDocument>>
         /\ isVisible' = TRUE
         /\ IF found # NoElem /\ isChatGPT
              THEN /\ chatInputField' = found
                   /\ placement' = [placement EXCEPT !.leftTop = found]
              ELSE /\ placement' = [placement EXCEPT !.rightBottom = TRUE]
                   /\ UNCHANGED chatInputField

contentRest == <<listeners, lastInputValue, isOptimizing,
                 optimizationTimeout, isExtensionValid, timers, calls,
                 sinceLast, bgVars, fnVars>>

\* init: the 500 ms timeout that positions the control.
content_init ==
  /\ burst = 0
  /\ burst' = 1
  /\ content_positionButtonNearInput
  /\ lastStep' = Step("burst")
  /\ UNCHANGED <<hostVars, checker, clicks, contentRest>>

\* monitorChatGPTInput: the MutationObserver callback.
content_monitorObserver ==
  /\ isChatGPT
  /\ found # NoElem /\ found # chatInputField
  /\ chatInputField' = found
  /\ content_positionButtonNearInput
  /\ lastStep' = Step("observer")
  /\ UNCHANGED <<hostVars, checker, burst, clicks, contentRest>>

\* monitorChatGPTInput: the setInterval callback.
content_monitorInterval ==
  /\ isChatGPT
  /\ found # NoElem
  /\ chatInputField' = found
  /\ content_positionButtonNearInput
  /\ lastStep' = Step("interval")
  /\ UNCHANGED <<hostVars, checker, burst, clicks, contentRest>>

\* monitorChatGPTInput: checkForInput.
content_checkForInput(attempts) ==
  /\ attempts \in checker
  /\ IF found # NoElem
       THEN /\ chatInputField' = found
            /\ content_positionButtonNearInput
            /\ checker' = checker \ {attempts}
       ELSE /\ checker' = (checker \ {attempts}) \cup
                  (IF attempts < maxAttempts THEN {attempts + 1} ELSE {})
            /\ UNCHANGED <<buttonDiv, tooltipDiv, inDocument, isVisible,
                           placement, chatInputField>>
  /\ lastStep' = Step("checkForInput")
  /\ UNCHANGED <<hostVars, burst, clicks, contentRest>>

\* Click on the floating control: handleButtonClick calls
\* chrome.storage.local.set directly.
content_handleButtonClick(selection) ==
  /\ buttonDiv /\ "button" \in inDocument
  /\ Cardinality(clicks) < MaxClicks
  /\ LET textToOptimize == capturedText(selection) IN
       IF chromeState = "ok"
         THEN /\ clicks' = clicks \cup {[id |-> FreshClick, pc |-> "storing",
                                         text |-> textToOptimize,
                                         stored |-> FALSE]}
              /\ lastStep' = StepMsg("click", "pending", selection, <<>>)
         ELSE /\ UNCHANGED clicks
              /\ lastStep' = StepMsg("click", "threw", selection, <<>>)
  /\ UNCHANGED <<hostVars, pageVars, timers, calls, checker, burst,
                 sinceLast, bgVars, fnVars>>

\* The callback of chrome.storage.local.set: sends OPEN_POPUP_WITH_TEXT.  A
\* page whose context was invalidated meanwhile is not called back.
content_storageSetCallback(k) ==
  /\ k \in clicks
  /\ k.pc = "storing"
  /\ clicks' = clicks \ {k}
  /\ IF chromeState = "ok"
       THEN /\ storage' = k.text
            /\ lastStep' = StepFull("send", "pending",
                             <<[type |-> "OPEN_POPUP_WITH_TEXT",
                                text |-> k.text]>>)
       ELSE /\ UNCHANGED storage
            /\ lastStep' = StepFull("stored", "dropped", <<>>)
  /\ UNCHANGED <<isChatGPT, found, value, listeners, chromeState, pageVars,
                 timers, calls, checker, burst, sinceLast, bgVars, fnVars>>

\* chrome.runtime.onMessage listener: only GET_SELECTED_TEXT is handled.
content_onMessage(type, text, selection) ==
  /\ lastStep' = StepMsg("message", type,
                   IF type = "REPLACE_CHATGPT_TEXT" THEN text ELSE "",
                   IF type = "GET_SELECTED_TEXT"
                     THEN <<[text |-> capturedText(selection)]>>
                     ELSE <<>>)
  /\ UNCHANGED <<hostVars, pageVars, taskVars, sinceLast, bgVars, fnVars>>

NextContent ==
  \/ \E e \in Elems, v \in {"", LongA} : UserInput(e, v)
  \/ \E e \in Elems \cup {NoElem} : HostRender(e)
  \/ content_init
  \/ content_monitorObserver
  \/ content_monitorInterval
  \/ \E a \in checker : content_checkForInput(a)
  \/ \E sel \in Selections : content_handleButtonClick(sel)
  \/ \E k \in clicks : content_storageSetCallback(k)
  \/ \E type \in {"GET_SELECTED_TEXT", "GET_CHATGPT_TEXT",
                  "REPLACE_CHATGPT_TEXT"},
        text \in {"", LongA}, sel \in {"", ShortText, Blank} :
       content_onMessage(type, text, sel)
  \/ \E s \in {"invalidated", "gone"} : ContextInvalidated(s)

SpecContent == Init /\ [][NextContent]_vars

\* ===================================================================
\* Background worker: src/unnamed/part_001 251-330
\* ===================================================================

Unused(m) == requests[m] = NoRequest

bgRest == <<isChatGPT, found, value, listeners, chromeState, pageVars,
            taskVars, sinceLast, fnVars>>

\* A listener that opens the popup before the write is called back.
bg_onMessage_opensFirst(m, type, text) ==
  /\ Unused(m)
  /\ requests' = [requests EXCEPT ![m] = [type |-> type, text |-> text]]
  /\ CASE type = "OPEN_POPUP" ->
            /\ popupLog' = Append(popupLog,
                                   [ev |-> "open", id |-> m, text |-> ""])
            /\ acks' = [acks EXCEPT ![m] = Append(@, [success |-> TRUE])]
            /\ UNCHANGED <<lastSelectedText, writes>>
       [] type = "OPEN_POPUP_WITH_TEXT" ->
            /\ lastSelectedText' = text
            /\ writes' = writes \cup {[id |-> m, text |-> text]}
            /\ popupLog' = Append(popupLog,
                                   [ev |-> "open", id |-> m, text |-> ""])
            /\ UNCHANGED acks
       [] type = "GET_LAST_TEXT" ->
            /\ acks' = [acks EXCEPT
                          ![m] = Append(@, [text |-> lastSelectedText])]
            /\ UNCHANGED <<lastSelectedText, writes, popupLog>>
       [] OTHER ->
            /\ acks' = [acks EXCEPT ![m] = Append(@, [success |-> TRUE])]
            /\ UNCHANGED <<lastSelectedText, writes, popupLog>>
  /\ lastStep' = StepFull("bgMessage", type, <<>>)
  /\ UNCHANGED <<storage, bgRest>>

\* chrome.runtime.onMessage listener of the worker, for the m-th event.
bg_onMessage(m, type, text) ==
  /\ Unused(m)
  /\ requests' = [requests EXCEPT ![m] = [type |-> type, text |-> text]]
  /\ CASE type = "OPEN_POPUP" ->
            /\ popupLog' = Append(popupLog,
                                   [ev |-> "open", id |-> m, text |-> ""])
            /\ acks' = [acks EXCEPT ![m] = Append(@, [success |-> TRUE])]
            /\ UNCHANGED <<lastSelectedText, writes>>
       [] type = "OPEN_POPUP_WITH_TEXT" ->
            /\ lastSelectedText' = text
            /\ writes' = writes \cup {[id |-> m, text |-> text]}
            /\ UNCHANGED <<popupLog, acks>>
       [] type = "GET_LAST_TEXT" ->
            /\ acks' = [acks EXCEPT
                          ![m] = Append(@, [text |-> lastSelectedText])]
            /\ UNCHANGED <<lastSelectedText, writes, popupLog>>
       [] OTHER ->   \* OPTIMIZE_PROMPT, SCORE_PROMPT
            /\ acks' = [acks EXCEPT ![m] = Append(@, [success |-> TRUE])]
            /\ UNCHANGED <<lastSelectedText, writes, popupLog>>
  /\ lastStep' = StepFull("bgMessage", type, <<>>)
  /\ UNCHANGED <<storage, bgRest>>

\* chrome.contextMenus.onClicked listener, for the m-th event.
bg_contextMenuClicked(m, selectionText) ==
  /\ Unused(m)
  /\ requests' = [requests EXCEPT
                    ![m] = [type |-> "CONTEXT_MENU", text |-> selectionText]]
  /\ writes' = IF selectionText # ""
                 THEN writes \cup {[id |-> m, text |-> selectionText]}
                 ELSE writes
  /\ lastStep' = StepFull("bgMenu", "", <<>>)
  /\ UNCHANGED <<storage, lastSelectedText, popupLog, acks, bgRest>>

\* chrome.action.onClicked listener, for the m-th event.
bg_actionClicked(m) ==
  /\ Unused(m)
  /\ requests' = [requests EXCEPT
                    ![m] = [type |-> "ACTION_CLICK", text |-> ""]]
  /\ popupLog' = Append(popupLog, [ev |-> "open", id |-> m, text |-> ""])
  /\ lastStep' = StepFull("bgAction", "", <<>>)
  /\ UNCHANGED <<storage, lastSelectedText, writes, acks, bgRest>>

\* The callback chrome.storage.local.set runs once write w is done.
bg_storageSetCallback(w) ==
  /\ w \in writes
  /\ writes' = writes \ {w}
  /\ storage' = w.text
  /\ popupLog' = popupLog \o
                   <<[ev |-> "written", id |-> w.id, text |-> w.text],
                     [ev |-> "open", id |-> w.id, text |-> ""]>>
  /\ acks' = IF requests[w.id].type = "OPEN_POPUP_WITH_TEXT"
               THEN [acks EXCEPT ![w.id] = Append(@, [success |-> TRUE])]
               ELSE acks
  /\ lastStep' = StepFull("bgStored", "", <<>>)
  /\ UNCHANGED <<lastSelectedText, requests, bgRest>>

BgTypes == {"OPEN_POPUP", "OPEN_POPUP_WITH_TEXT", "GET_LAST_TEXT",
            "OPTIMIZE_PROMPT", "SCORE_PROMPT"}

NextBackground ==
  \/ \E m \in 1..MaxMsgs, type \in BgTypes, text \in Texts :
       bg_onMessage(m, type, text)
  \/ \E m \in 1..MaxMsgs, text \in Texts : bg_contextMenuClicked(m, text)
  \/ \E m \in 1..MaxMsgs : bg_actionClicked(m)
  \/ \E w \in writes : bg_storageSetCallback(w)

SpecBackground == Init /\ [][NextBackground]_vars

\* ===================================================================
\* Locator: findChatGPTInput of SimpleRefiner.tsx 488-544, content.ts 10-60
\* ===================================================================

\* Three of the selectors both lists hold, in the order both lists hold
\* them: an attribute hook, a placeholder match, the bare textarea query.
selectors ==
  <<"textarea[data-testid=chat-input]", "textarea[placeholder*=Message]",
    "textarea">>

\* The selectors a textarea may match: every textarea matches the last one.
MatchSets ==
  {{selectors[3]}, {selectors[2], selectors[3]}, {selectors[1], selectors[3]}}

\* What the locator reads from a node: offsetParent (FALSE: null), the inline
\* display and visibility, and getBoundingClientRect().
Rendering(offsetParent, display, visibility, width, height, top, left) ==
  [offsetParent |-> offsetParent, display |-> display,
   visibility |-> visibility, width |-> width, height |-> height,
   top |-> top, left |-> left]

Renderings ==
  {Rendering(TRUE, "", "", 600, 40, 500, 200),      \* an ordinary input
   Rendering(FALSE, "", "", 0, 0, 0, 0),            \* detached
   Rendering(TRUE, "none", "", 600, 40, 500, 200),
   Rendering(TRUE, "", "hidden", 600, 40, 500, 200),
   Rendering(TRUE, "", "", 100, 40, 500, 200),      \* a decoy, too narrow
   Rendering(TRUE, "", "", 600, 20, 500, 200),      \* a decoy, too low
   Rendering(TRUE, "", "", 600, 40, 500, 0),        \* at the left edge
   Rendering(TRUE, "", "", 600, 40, 0, 200)}        \* at the top edge

Nodes == {[matches |-> m, box |-> r] : m \in MatchSets, r \in Renderings}

RECURSIVE Documents(_)
Documents(n) ==
  IF n = 0 THEN {<<>>}
  ELSE Documents(n - 1) \cup
       {Append(d, x) : d \in {dd \in Documents(n - 1) : Len(dd) = n - 1},
                       x \in Nodes}

\* document.querySelectorAll(selector): the matching nodes, in document order.
querySelectorAll(selector) ==
  {i \in 1..Len(document) : selector \in document[i].matches}

\* The test of SimpleRefiner.tsx 525-531.
isCandidate(element) ==
  /\ element.box.offsetParent
  /\ element.box.display # "none"
  /\ element.box.visibility # "hidden"
  /\ element.box.width > 100
  /\ element.box.height > 20
  /\ element.box.top > 0
  /\ element.box.left > 0

\* The test of content.ts 48-52.
content_isCandidate(element) ==
  /\ element.box.offsetParent
  /\ element.box.display # "none"
  /\ element.box.visibility # "hidden"
  /\ element.box.width > 100
  /\ element.box.height > 20

\* The loop over the selectors from the k-th on, given the nodes that pass
\* the test: the first node, in document order, of the first selector that
\* has a passing node.
RECURSIVE findFrom(_, _)
findFrom(k, candidates) ==
  IF k > Len(selectors) THEN NoElem
  ELSE LET passing == querySelectorAll(selectors[k]) \cap candidates
       IN IF passing # {}
            THEN CHOOSE i \in passing : \A j \in passing : i <= j
            ELSE findFrom(k + 1, candidates)

findChatGPTInput ==
  findFrom(1, {i \in 1..Len(document) : isCandidate(document[i])})

content_findChatGPTInput ==
  findFrom(1, {i \in 1..Len(document) : content_isCandidate(document[i])})

locatorRest == <<isChatGPT, value, listeners, chromeState, storage, pageVars,
                 taskVars, sinceLast, bgVars, fnVars>>

\* The state of page and worker that the function specifications leave as
\* it is after construction.
Constructed ==
  /\ isChatGPT = TRUE
  /\ found = NoElem
  /\ value = [e \in Elems |-> ""]
  /\ listeners = {}
  /\ chromeState = "ok"
  /\ storage = ""
  /\ buttonDiv = TRUE
  /\ tooltipDiv = TRUE
  /\ inDocument = {"button", "tooltip"}
  /\ isVisible = FALSE
  /\ placement = NoPlacement
  /\ chatInputField = NoElem
  /\ lastInputValue = ""
  /\ isOptimizing = FALSE
  /\ optimizationTimeout = Null
  /\ isExtensionValid = TRUE
  /\ timers = {}
  /\ calls = {}
  /\ checker = {}
  /\ burst = 0
  /\ clicks = {}
  /\ sinceLast = DebounceTicks
  /\ lastStep = Step("init")
  /\ BgInit

\* A call of findChatGPTInput() of SimpleRefiner.tsx on the document.
locate ==
  /\ lastStep.op # "find"
  /\ found' = findChatGPTInput
  /\ lastStep' = Step("find")
  /\ UNCHANGED locatorRest

\* A call of findChatGPTInput() of content.ts on the document.
content_locate ==
  /\ lastStep.op # "content_find"
  /\ found' = content_findChatGPTInput
  /\ lastStep' = Step("content_find")
  /\ UNCHANGED locatorRest

\* A page with any document of up to MaxNodes textareas, before a search.
InitLocator ==
  /\ Constructed
  /\ document \in Documents(MaxNodes)
  /\ window = NoWindow
  /\ buttonStyle = NoStyle
  /\ ApiInit
  /\ ViewInit

NextLocator ==
  \/ locate
  \/ content_locate

SpecLocator == InitLocator /\ [][NextLocator]_vars

\* ===================================================================
\* Positioner: positionButtonNearInput of SimpleRefiner.tsx 558-601 and of
\* content.ts 73-93, as a function of the anchor's rect and the viewport
\* ===================================================================

Max(a, b) == IF a > b THEN a ELSE b

Rects ==
  [left : {0, 40, 100, 1000}, top : {0, 40, 100, 700},
   width : {200, 1200}, height : {40, 700}]

Windows ==
  [innerWidth : {60, 300, 1280}, innerHeight : {60, 200, 800}, rect : Rects]

\* The left and top of SimpleRefiner.tsx 569-601 for anchor rect `rect` in a
\* viewport of viewportWidth x viewportHeight, with the branch that set them
\* before the clamp (chosen), the distance the branches keep from the anchor
\* (gap) and from the viewport edge in their tests (margin).
anchoredPosition(rect, viewportWidth, viewportHeight) ==
  LET buttonSize == 56
      padding == 10
      right == rect.left + rect.width
      bottom == rect.top + rect.height
      beside == rect.top + (rect.height \div 2) - (buttonSize \div 2)
      centred == rect.left + (rect.width \div 2) - (buttonSize \div 2)
      chosen ==
        IF right + buttonSize + 5 <= viewportWidth
          THEN [try |-> "right", left |-> right + 5, top |-> beside]
        ELSE IF rect.left - buttonSize - 5 >= 0
          THEN [try |-> "left", left |-> rect.left - buttonSize - 5,
                top |-> beside]
        ELSE IF rect.top - buttonSize - 5 >= 0
          THEN [try |-> "above", left |-> centred,
                top |-> rect.top - buttonSize - 5]
        ELSE IF bottom + buttonSize + 5 <= viewportHeight
          THEN [try |-> "below", left |-> centred, top |-> bottom + 5]
        ELSE [try |-> "corner", left |-> right - buttonSize - 10,
              top |-> rect.top - buttonSize - 10]
  IN [left |-> Max(padding,
                   Min(chosen.left, viewportWidth - buttonSize - padding)),
      top |-> Max(padding,
                  Min(chosen.top, viewportHeight - buttonSize - padding)),
      buttonSize |-> buttonSize, padding |-> padding,
      chosen |-> chosen.try, gap |-> 5, margin |-> 0]

\* The left and top of content.ts 78-93.
content_anchoredPosition(rect, viewportWidth, viewportHeight) ==
  LET buttonSize == 48
      right == rect.left + rect.width
      left0 == right + 10
      top0 == rect.top + (rect.height \div 2) - (buttonSize \div 2)
  IN [left |-> IF left0 + buttonSize > viewportWidth - 20
                 THEN rect.left - buttonSize - 10 ELSE left0,
      top |-> IF top0 < 20 THEN 20
              ELSE IF top0 + buttonSize > viewportHeight - 20
                THEN viewportHeight - buttonSize - 20
              ELSE top0,
      buttonSize |-> buttonSize, padding |-> 20,
      chosen |-> IF left0 + buttonSize > viewportWidth - 20
                   THEN "left" ELSE "right",
      gap |-> 10, margin |-> 20]

positionerRest == <<hostVars, pageVars, taskVars, sinceLast, bgVars,
                    document, window, apiVars, viewVars>>

\* positionButtonNearInput of SimpleRefiner.tsx with an input located.
place ==
  /\ lastStep.op # "place"
  /\ buttonStyle' =
       anchoredPosition(window.rect, window.innerWidth, window.innerHeight)
  /\ lastStep' = Step("place")
  /\ UNCHANGED positionerRest

\* positionButtonNearInput of content.ts with an input located.
content_place ==
  /\ lastStep.op # "content_place"
  /\ buttonStyle' =
       content_anchoredPosition(window.rect, window.innerWidth,
                                window.innerHeight)
  /\ lastStep' = Step("content_place")
  /\ UNCHANGED positionerRest

InitPositioner ==
  /\ Constructed
  /\ document = <<>>
  /\ window \in Windows
  /\ buttonStyle = NoStyle
  /\ ApiInit
  /\ ViewInit

NextPositioner ==
  \/ place
  \/ content_place

SpecPositioner == InitPositioner /\ [][NextPositioner]_vars

\* ===================================================================
\* API client: src/src/services/api.ts, and the popup components that call
\* it: OneClickOptimizer.tsx, PromptOptimizer.tsx
\* ===================================================================

\* Texts of the prompt field of the popup.
Prompts == {"", Blank, Padded, LongA}

\* What axios settles a request with: a 2xx response ("ok"), a response of
\* another status ("http"), no response at all ("none": network failure or
\* timeout), or an error raised while the request was set up ("setup").
Response(kind, status, data) ==
  [kind |-> kind, status |-> status, data |-> data]

ErrorBodies ==
  {NoData,
   [NoData EXCEPT !.error = "quota exceeded"],
   [NoData EXCEPT !.message = "Too many requests"],
   [NoData EXCEPT !.detail = "Invalid prompt", !.error = "quota exceeded"]}

Responses ==
  {Response("ok", 200, [NoData EXCEPT !.optimized_prompt = o,
                                      !.original = 50, !.optimized = 85]) :
     o \in {"", LongB}}
  \cup {Response("ok", 200, [NoData EXCEPT !.optimized_prompt = Absent])}
  \cup {Response("http", st, d) : st \in {429, 500}, d \in ErrorBodies}
  \cup {Response("none", 0, NoData),
        Response("setup", 0, [NoData EXCEPT !.message = "Invalid URL"])}

\* The requests of the client: POST /prompt-optimizer/optimize with
\* system_prompt `text`, and GET /prompt-optimizer/specializations.
Post(text) == [method |-> "POST", url |-> "/prompt-optimizer/optimize",
               system_prompt |-> text]
Get == [method |-> "GET", url |-> "/prompt-optimizer/specializations",
        system_prompt |-> ""]

\* A message is the sequence of the pieces it is concatenated from.
JSONstringify(parts) == <<"\"">> \o parts \o <<"\"">>

\* !x for a string field: the empty string and undefined are falsy.
Falsy(x) == x \in {"", Absent}

\* String.prototype.includes for the words the popup looks for.
Includes(message, word) ==
  \E i \in 1..Len(message) :
    \/ message[i] = word
    \/ message[i] = "quota exceeded" /\ word \in {"quota", "exceeded"}

\* handleError of api.ts 217-228, which optimizePrompt does not use.
ApiService_handleError(response) ==
  [op |-> "optimize", response |-> response, threw |-> TRUE,
   message |->
     CASE response.kind = "http" ->
            <<"API Error (", ToString(response.status), "): ">> \o
            (IF response.data.detail # "" THEN <<response.data.detail>>
             ELSE IF response.data.error # "" THEN <<response.data.error>>
             ELSE <<"Server error: ", ToString(response.status)>>)
       [] response.kind = "none" ->
            <<"No response from server. Please check if the API server is running.">>
       [] OTHER -> <<"Request failed: ", response.data.message>>,
   value |-> FALSE]

\* An optimizePrompt that classifies failures with handleError.
ApiService_optimizePrompt_viaHandleError(response) ==
  IF response.kind = "ok"
    THEN [op |-> "optimize", response |-> response, threw |-> FALSE,
          message |-> <<>>, value |-> TRUE]
    ELSE ApiService_handleError(response)

\* How optimizePrompt of api.ts 20-60 settles once axios settled the POST.
ApiService_optimizePrompt(response) ==
  [op |-> "optimize", response |-> response,
   threw |-> response.kind # "ok",
   message |->
     CASE response.kind = "ok" -> <<>>
       [] response.kind = "http" ->
            LET errorMessage ==
                  IF response.data.detail # "" THEN <<response.data.detail>>
                  ELSE IF response.data.error # ""
                    THEN <<response.data.error>>
                  ELSE IF response.data.message # ""
                    THEN <<response.data.message>>
                  ELSE <<"Server error: ", ToString(response.status)>>
            IN <<"API Error (", ToString(response.status), "): ">> \o
               JSONstringify(errorMessage)
       [] response.kind = "none" ->
            <<"No response from server. Please check if the API server is running on localhost:8000">>
       [] OTHER -> <<"Request failed: ", response.data.message>>,
   value |-> response.kind = "ok"]

\* A testConnection that lets a request set-up error through.
ApiService_testConnection_rethrowsSetup(response) ==
  [op |-> "probe", response |-> response,
   threw |-> response.kind = "setup",
   message |-> IF response.kind = "setup"
                 THEN <<response.data.message>> ELSE <<>>,
   value |-> response.kind = "ok"]

\* How testConnection of api.ts 133-153 settles once axios settled the GET.
ApiService_testConnection(response) ==
  [op |-> "probe", response |-> response, threw |-> FALSE,
   message |-> <<>>, value |-> response.kind = "ok"]

\* An identifier for a request made once r (if any) has been answered.
FreshRequest(r) ==
  CHOOSE i \in 1..(Cardinality(inflight) + 1) :
    \A q \in inflight \ r : q.id # i

Pending(op, by, text, iter, r) ==
  [id |-> FreshRequest(r), op |-> op, by |-> by, text |-> text,
   iter |-> iter]

apiRest == <<hostVars, pageVars, taskVars, sinceLast, bgVars,
             document, window, buttonStyle, viewVars>>

\* apiService.optimizePrompt({system_prompt: text}) called on the client
\* itself: the POST is made with whatever text it was given.
callOptimizePrompt(text) ==
  /\ Len(sent) < MaxRequests
  /\ sent' = Append(sent, Post(text))
  /\ inflight' = inflight \cup {Pending("optimize", "client", text, 0, {})}
  /\ lastStep' = StepMsg("optimizePrompt", "client", text, <<>>)
  /\ UNCHANGED <<apiResult, popup, form, apiRest>>

\* apiService.testConnection() called on the client itself.
callTestConnection ==
  /\ Len(sent) < MaxRequests
  /\ sent' = Append(sent, Get)
  /\ inflight' = inflight \cup {Pending("probe", "client", "", 0, {})}
  /\ lastStep' = StepMsg("testConnection", "client", "", <<>>)
  /\ UNCHANGED <<apiResult, popup, form, apiRest>>

\* The server's answer to a call made on the client itself.
clientSettles(r, response) ==
  /\ r \in inflight /\ r.by = "client"
  /\ apiResult' = IF r.op = "optimize"
                    THEN ApiService_optimizePrompt(response)
                    ELSE ApiService_testConnection(response)
  /\ inflight' = inflight \ {r}
  /\ lastStep' = StepMsg("settled", "client", r.text, <<>>)
  /\ UNCHANGED <<sent, popup, form, apiRest>>

\* handleOptimize of OneClickOptimizer.tsx 65-78, up to the await.
OneClick_handleOptimize(currentPrompt) ==
  /\ IF Trim(currentPrompt) = ""
       THEN /\ popup' = [popup EXCEPT
                           !.error = <<"Please enter a prompt to optimize">>]
            /\ UNCHANGED <<sent, inflight>>
       ELSE /\ popup' = [popup EXCEPT !.isOptimizing = TRUE, !.error = <<>>]
            /\ sent' = Append(sent, Post(Trim(currentPrompt)))
            /\ inflight' = inflight \cup
                 {Pending("optimize", "oneclick", Trim(currentPrompt),
                          popup.currentIteration, {})}
  /\ lastStep' = StepMsg("handleOptimize", "oneclick", currentPrompt, <<>>)
  /\ UNCHANGED <<apiResult, form, apiRest>>

\* handleOptimize of OneClickOptimizer.tsx 79-131, after the await: the
\* history item on success; on failure the message and testConnection().
OneClick_handleOptimize_resume(r, response) ==
  /\ r \in inflight /\ r.by = "oneclick" /\ r.op = "optimize"
  /\ LET res == ApiService_optimizePrompt(response)
         thrown == IF res.threw THEN res.message
                   ELSE <<"Invalid response: missing optimized_prompt">>
         errorMessage ==
           IF Includes(thrown, "429") \/ Includes(thrown, "quota")
                \/ Includes(thrown, "exceeded")
             THEN <<"API quota exceeded. The free tier allows 50 requests per day. Please try again tomorrow or upgrade your plan.">>
           ELSE IF Includes(thrown, "timeout")
             THEN <<"Request timed out. Please check if the server is running and try again.">>
           ELSE thrown
         historyItem ==
           [iteration |-> r.iter + 1,
            prompt |-> response.data.optimized_prompt,
            score |-> IF response.data.optimized # 0
                        THEN response.data.optimized ELSE 70]
     IN /\ apiResult' = res
        /\ IF ~res.threw /\ ~Falsy(response.data.optimized_prompt)
             THEN /\ popup' =
                       [popup EXCEPT
                          !.currentIteration = @ + 1,
                          !.optimizationHistory = <<historyItem>> \o @,
                          !.isOptimizing = FALSE]
                  /\ inflight' = inflight \ {r}
                  /\ UNCHANGED sent
             ELSE /\ popup' = [popup EXCEPT !.error = errorMessage]
                  /\ sent' = Append(sent, Get)
                  /\ inflight' = (inflight \ {r}) \cup
                       {Pending("probe", "oneclick_catch", "", 0, {r})}
  /\ lastStep' = StepMsg("resumed", "oneclick", r.text, <<>>)
  /\ UNCHANGED <<form, apiRest>>

\* testConnection of OneClickOptimizer.tsx 50-63, up to the await: run by
\* the effect on mount and by the retry buttons.
OneClick_testConnection ==
  /\ sent' = Append(sent, Get)
  /\ inflight' = inflight \cup {Pending("probe", "oneclick", "", 0, {})}
  /\ lastStep' = StepMsg("testConnection", "oneclick", "", <<>>)
  /\ UNCHANGED <<apiResult, popup, form, apiRest>>

\* testConnection of OneClickOptimizer.tsx after the await; when it was
\* awaited by the catch block of handleOptimize, the finally block follows.
OneClick_testConnection_resume(r, response) ==
  /\ r \in inflight /\ r.op = "probe"
  /\ r.by \in {"oneclick", "oneclick_catch"}
  /\ LET res == ApiService_testConnection(response) IN
       /\ apiResult' = res
       /\ popup' =
            [popup EXCEPT
               !.isConnected = res.value,
               !.error = IF res.value THEN <<>>
                         ELSE <<"API server is not responding. Please check if the server is running on localhost:8000">>,
               !.isOptimizing = IF r.by = "oneclick_catch" THEN FALSE ELSE @]
  /\ inflight' = inflight \ {r}
  /\ lastStep' = StepMsg("probed", r.by, "", <<>>)
  /\ UNCHANGED <<sent, form, apiRest>>

\* handleOptimize of PromptOptimizer.tsx 37-50, up to the await.
PromptOptimizer_handleOptimize(system_prompt) ==
  /\ IF Trim(system_prompt) = ""
       THEN UNCHANGED <<form, sent, inflight>>
       ELSE /\ form' = [form EXCEPT !.isOptimizing = TRUE, !.error = <<>>]
            /\ sent' = Append(sent, Post(Trim(system_prompt)))
            /\ inflight' = inflight \cup
                 {Pending("optimize", "form", Trim(system_prompt), 0, {})}
  /\ lastStep' = StepMsg("handleOptimize", "form", system_prompt, <<>>)
  /\ UNCHANGED <<apiResult, popup, apiRest>>

\* handleOptimize of PromptOptimizer.tsx 51-60, after the await; on failure
\* testConnection() is started and not awaited.
PromptOptimizer_handleOptimize_resume(r, response) ==
  /\ r \in inflight /\ r.by = "form" /\ r.op = "optimize"
  /\ LET res == ApiService_optimizePrompt(response) IN
       /\ apiResult' = res
       /\ IF ~res.threw
            THEN /\ form' = [form EXCEPT !.result = response.data,
                                         !.isOptimizing = FALSE]
                 /\ inflight' = inflight \ {r}
                 /\ UNCHANGED sent
            ELSE /\ form' = [form EXCEPT !.error = res.message,
                                         !.isOptimizing = FALSE]
                 /\ sent' = Append(sent, Get)
                 /\ inflight' = (inflight \ {r}) \cup
                      {Pending("probe", "form", "", 0, {r})}
  /\ lastStep' = StepMsg("resumed", "form", r.text, <<>>)
  /\ UNCHANGED <<popup, apiRest>>

\* testConnection of PromptOptimizer.tsx 26-35, after the await.
PromptOptimizer_testConnection_resume(r, response) ==
  /\ r \in inflight /\ r.by = "form" /\ r.op = "probe"
  /\ LET res == ApiService_testConnection(response) IN
       /\ apiResult' = res
       /\ form' = [form EXCEPT !.isConnected = res.value, !.error = <<>>]
  /\ inflight' = inflight \ {r}
  /\ lastStep' = StepMsg("probed", "form", "", <<>>)
  /\ UNCHANGED <<sent, popup, apiRest>>

InitApi ==
  /\ Constructed
  /\ document = <<>>
  /\ window = NoWindow
  /\ buttonStyle = NoStyle
  /\ ApiInit
  /\ ViewInit

NextApi ==
  \/ \E text \in Prompts : callOptimizePrompt(text)
  \/ callTestConnection
  \/ \E r \in inflight, response \in Responses : clientSettles(r, response)

SpecApi == InitApi /\ [][NextApi]_vars

\* The popup components: the effect on mount and the retry button, the
\* optimize button, and the answers of the server.  A handler that may probe
\* after its request is started while two requests are left.
NextPopup ==
  \/ \E text \in Prompts :
       Len(sent) + 2 <= MaxRequests /\ OneClick_handleOptimize(text)
  \/ \E r \in inflight, response \in Responses :
       OneClick_handleOptimize_resume(r, response)
  \/ Len(sent) < MaxRequests /\ OneClick_testConnection
  \/ \E r \in inflight, response \in Responses :
       OneClick_testConnection_resume(r, response)
  \/ \E text \in Prompts :
       Len(sent) + 2 <= MaxRequests /\ PromptOptimizer_handleOptimize(text)
  \/ \E r \in inflight, response \in Responses :
       PromptOptimizer_handleOptimize_resume(r, response)
  \/ \E r \in inflight, response \in Responses :
       PromptOptimizer_testConnection_resume(r, response)

SpecPopup == InitApi /\ [][NextPopup]_vars

\* ===================================================================
\* Score overview: DynamicRefinement.tsx 676-701 and the ResultViewer of
\* src/unnamed/part_004 100-111, 212-217, 262-274
\* ===================================================================

\* Overall scores a server may return, in tenths: 0, 0.5, 5.0, 6.0, 8.5, 10.
Scores == {0, 5, 50, 60, 85, 100}

\* value || fallback on numbers: 0 is falsy.
OrElse(score, fallback) == IF score # 0 THEN score ELSE fallback

\* The score overview of DynamicRefinement.tsx 676-701 for result r.
DynamicRefinement_overview(r) ==
  [original |-> OrElse(r.original, 50),
   optimized |-> OrElse(r.optimized, 85),
   improvement |-> OrElse(r.optimized, 85) - OrElse(r.original, 50),
   shown |-> TRUE]

\* OptimizedPromptView with getImprovementIndicator, part_004 100-111 and
\* 212-217: the indicator is rendered only for a positive improvement.
ResultViewer_overview(r) ==
  LET overallScore == OrElse(r.optimized, 85)
      originalOverallScore == OrElse(r.original, 60)
      improvement == overallScore - originalOverallScore
  IN [original |-> originalOverallScore, optimized |-> overallScore,
      improvement |-> improvement, shown |-> improvement > 0]

viewRest == <<hostVars, pageVars, taskVars, sinceLast, bgVars,
              document, window, buttonStyle, apiVars, result>>

\* DynamicRefinement renders the result.
renderDynamicRefinement ==
  /\ lastStep.op # "DynamicRefinement"
  /\ scoreOverview' = DynamicRefinement_overview(result)
  /\ lastStep' = Step("DynamicRefinement")
  /\ UNCHANGED viewRest

\* ResultViewer renders the result.
renderResultViewer ==
  /\ lastStep.op # "ResultViewer"
  /\ scoreOverview' = ResultViewer_overview(result)
  /\ lastStep' = Step("ResultViewer")
  /\ UNCHANGED viewRest

InitView ==
  /\ Constructed
  /\ document = <<>>
  /\ window = NoWindow
  /\ buttonStyle = NoStyle
  /\ ApiInit
  /\ result \in [original : Scores, optimized : Scores]
  /\ scoreOverview = NoOverview

NextView ==
  \/ renderDynamicRefinement
  \/ renderResultViewer

SpecView == InitView /\ [][NextView]_vars

\* ===================================================================
\* OneClickOptimizer.tsx as its user drives it: the prompt field, the
\* optimize, refine, reset and retry buttons, and what the render shows
\* ===================================================================

\* The template string of handleRefine, line 144.
refinedPrompt(currentPrompt, instructions) ==
  currentPrompt \o "\n\nRefinement instructions: " \o instructions

\* The instruction of the first of the advancedRefinements, line 224.
Instructions ==
  {"Make this prompt more concise and to the point while maintaining all essential information"}

\* The render of OneClickOptimizer.tsx 279-598 in state p: "TypeError" when
\* an expression of the JSX throws, as currentPrompt.trim() of line 409 does
\* for an undefined currentPrompt.
OneClick_render(p) ==
  IF p.currentPrompt = Absent THEN "TypeError" ELSE "ok"

\* handleRefine of OneClickOptimizer.tsx 134-149, up to the await.
OneClick_handleRefine(instructions) ==
  /\ IF Trim(popup.currentPrompt) = "" \/ Trim(instructions) = ""
       THEN /\ popup' =
                 [popup EXCEPT
                    !.error = <<"Please provide both a prompt and refinement instructions">>]
            /\ UNCHANGED <<sent, inflight>>
       ELSE /\ popup' = [popup EXCEPT !.isOptimizing = TRUE, !.error = <<>>]
            /\ sent' = Append(sent,
                 Post(refinedPrompt(popup.currentPrompt, instructions)))
            /\ inflight' = inflight \cup
                 {Pending("refine", "oneclick", popup.currentPrompt,
                          popup.currentIteration, {})}
  /\ lastStep' = StepMsg("handleRefine", "oneclick", instructions, <<>>)
  /\ UNCHANGED <<apiResult, form, apiRest>>

\* handleRefine of OneClickOptimizer.tsx 150-191, after the await: the
\* prompt field and the history item on success; on failure the message and
\* testConnection().
OneClick_handleRefine_resume(r, response) ==
  /\ r \in inflight /\ r.by = "oneclick" /\ r.op = "refine"
  /\ LET res == ApiService_optimizePrompt(response)
         historyItem ==
           [iteration |-> r.iter + 1,
            prompt |-> response.data.optimized_prompt,
            score |-> OrElse(response.data.optimized, 70)]
     IN /\ apiResult' = res
        /\ IF ~res.threw
             THEN /\ popup' =
                       [popup EXCEPT
                          !.currentPrompt = response.data.optimized_prompt,
                          !.currentIteration = @ + 1,
                          !.optimizationHistory = <<historyItem>> \o @,
                          !.isOptimizing = FALSE]
                  /\ inflight' = inflight \ {r}
                  /\ UNCHANGED sent
             ELSE /\ popup' = [popup EXCEPT !.error = res.message]
                  /\ sent' = Append(sent, Get)
                  /\ inflight' = (inflight \ {r}) \cup
                       {Pending("probe", "oneclick_catch", "", 0, {r})}
  /\ lastStep' = StepMsg("resumed", "refine", r.text, <<>>)
  /\ UNCHANGED <<form, apiRest>>

\* resetOptimization of OneClickOptimizer.tsx 203-209.
OneClick_resetOptimization ==
  /\ popup' = [popup EXCEPT !.currentPrompt = popup.initialText,
                            !.optimizationHistory = <<>>,
                            !.currentIteration = 0,
                            !.error = <<>>]
  /\ lastStep' = StepMsg("reset", "oneclick", "", <<>>)
  /\ UNCHANGED <<sent, inflight, apiResult, form, apiRest>>

\* onChange of the prompt field, line 378.
OneClick_onChange(text) ==
  /\ popup.currentPrompt # text
  /\ popup' = [popup EXCEPT !.currentPrompt = text]
  /\ lastStep' = StepMsg("onChange", "oneclick", text, <<>>)
  /\ UNCHANGED <<sent, inflight, apiResult, form, apiRest>>

\* The popup mounted with initialText, before the effect that probes.
InitOneClick ==
  /\ Constructed
  /\ document = <<>>
  /\ window = NoWindow
  /\ buttonStyle = NoStyle
  /\ sent = <<>>
  /\ inflight = {}
  /\ apiResult = NoResult
  /\ \E t \in {"", LongA} :
       popup = [NoPopup EXCEPT !.initialText = t, !.currentPrompt = t]
  /\ form = [error |-> <<>>, isConnected |-> FALSE, isOptimizing |-> FALSE,
             result |-> NoData]
  /\ ViewInit

\* The answers the server gives the popup: a full result, results with the
\* optimized prompt empty or left out, a failure status, no response.
Replies ==
  {r \in Responses :
     \/ r.kind \in {"ok", "none"}
     \/ r.status = 500 /\ r.data = NoData}

\* The controls act while the component is mounted, and each one while the
\* render shows it enabled: the optimize button of line 409, the refine
\* buttons of line 467 and the reset button of line 368, both rendered with
\* a history only.
NextOneClick ==
  \/ /\ Len(sent) < MaxTurns
     /\ OneClick_render(popup) = "ok"
     /\ OneClick_testConnection
  \/ \E r \in inflight, response \in Replies :
       OneClick_testConnection_resume(r, response)
  \/ \E text \in {"", LongA} :
       OneClick_render(popup) = "ok" /\ OneClick_onChange(text)
  \/ /\ Len(sent) + 2 <= MaxTurns
     /\ OneClick_render(popup) = "ok"
     /\ ~popup.isOptimizing /\ Trim(popup.currentPrompt) # ""
     /\ popup.isConnected
     /\ OneClick_handleOptimize(popup.currentPrompt)
  \/ \E r \in inflight, response \in Replies :
       OneClick_handleOptimize_resume(r, response)
  \/ \E instructions \in Instructions :
       /\ Len(sent) + 2 <= MaxTurns
       /\ OneClick_render(popup) = "ok"
       /\ popup.optimizationHistory # <<>> /\ ~popup.isOptimizing
       /\ OneClick_handleRefine(instructions)
  \/ \E r \in inflight, response \in Replies :
       OneClick_handleRefine_resume(r, response)
  \/ /\ OneClick_render(popup) = "ok"
     /\ popup.optimizationHistory # <<>>
     /\ OneClick_resetOptimization

SpecOneClick == InitOneClick /\ [][NextOneClick]_vars

\* ===================================================================
\* The second component of PromptOptimizer.tsx (lines 274-490): the form
\* with its connection test and its optimize button
\* ===================================================================

\* The state after useState, lines 285-293: connected is assumed.
NoForm == [error |-> <<>>, isConnected |-> TRUE, isConnecting |-> TRUE,
           isOptimizing |-> FALSE, result |-> NoData]

\* testConnection of PromptOptimizer.tsx 299-302, up to the await: run by
\* the effect on mount, by the retry button and by handleOptimize's catch.
PromptOptimizerB_testConnection ==
  /\ form' = [form EXCEPT !.isConnecting = TRUE, !.error = <<>>]
  /\ sent' = Append(sent, Get)
  /\ inflight' = inflight \cup {Pending("probe", "formB", "", 0, {})}
  /\ lastStep' = StepMsg("testConnection", "formB", "", <<>>)
  /\ UNCHANGED <<apiResult, popup, apiRest>>

\* testConnection of PromptOptimizer.tsx 303-310, after the await: the value
\* the client resolved to is not read; the catch block runs when it rejects.
PromptOptimizerB_testConnection_resume(r, response) ==
  /\ r \in inflight /\ r.by = "formB" /\ r.op = "probe"
  /\ LET res == ApiService_testConnection(response) IN
       /\ apiResult' = res
       /\ form' =
            IF res.threw
              THEN [form EXCEPT
                      !.isConnected = FALSE,
                      !.error = <<"API server is not running. Start the server at localhost:8000">>,
                      !.isConnecting = FALSE]
              ELSE [form EXCEPT !.isConnected = TRUE, !.isConnecting = FALSE]
  /\ inflight' = inflight \ {r}
  /\ lastStep' = StepMsg("probed", "formB", "", <<>>)
  /\ UNCHANGED <<sent, popup, apiRest>>

\* handleOptimize of PromptOptimizer.tsx 313-326, up to the await.
PromptOptimizerB_handleOptimize(system_prompt) ==
  /\ IF Trim(system_prompt) = "" \/ ~form.isConnected
       THEN UNCHANGED <<form, sent, inflight>>
       ELSE /\ form' = [form EXCEPT !.isOptimizing = TRUE, !.error = <<>>]
            /\ sent' = Append(sent, Post(Trim(system_prompt)))
            /\ inflight' = inflight \cup
                 {Pending("optimize", "formB", Trim(system_prompt), 0, {})}
  /\ lastStep' = StepMsg("handleOptimize", "formB", system_prompt, <<>>)
  /\ UNCHANGED <<apiResult, popup, apiRest>>

\* handleOptimize of PromptOptimizer.tsx 327-338, after the await: onResult
\* on success; on failure setError, then testConnection(), which is not
\* awaited and clears the error again before its own await.
PromptOptimizerB_handleOptimize_resume(r, response) ==
  /\ r \in inflight /\ r.by = "formB" /\ r.op = "optimize"
  /\ LET res == ApiService_optimizePrompt(response) IN
       /\ apiResult' = res
       /\ IF ~res.threw
            THEN /\ form' = [form EXCEPT !.result = response.data,
                                         !.isOptimizing = FALSE]
                 /\ inflight' = inflight \ {r}
                 /\ UNCHANGED sent
            ELSE /\ form' = [form EXCEPT !.isConnecting = TRUE,
                                         !.error = <<>>,
                                         !.isOptimizing = FALSE]
                 /\ sent' = Append(sent, Get)
                 /\ inflight' = (inflight \ {r}) \cup
                      {Pending("probe", "formB", "", 0, {r})}
  /\ lastStep' = StepMsg("resumed", "formB", r.text, <<>>)
  /\ UNCHANGED <<popup, apiRest>>

InitForm ==
  /\ Constructed
  /\ document = <<>>
  /\ window = NoWindow
  /\ buttonStyle = NoStyle
  /\ sent = <<>>
  /\ inflight = {}
  /\ apiResult = NoResult
  /\ popup = NoPopup
  /\ form = NoForm
  /\ ViewInit

NextForm ==
  \/ Len(sent) < MaxRequests /\ PromptOptimizerB_testConnection
  \/ \E r \in inflight, response \in Replies :
       PromptOptimizerB_testConnection_resume(r, response)
  \/ \E text \in Prompts :
       Len(sent) + 2 <= MaxRequests /\ PromptOptimizerB_handleOptimize(text)
  \/ \E r \in inflight, response \in Replies :
       PromptOptimizerB_handleOptimize_resume(r, response)

SpecForm == InitForm /\ [][NextForm]_vars

\* ===================================================================
\* The popup opened for a handoff: the effect of Popup, src/src/popup.tsx
\* 22-59, with the worker that wrote the text and the page it asks
\* ===================================================================

popupRest == <<hostVars, pageVars, taskVars, sinceLast, lastSelectedText,
               requests, writes, acks, document, window, buttonStyle,
               apiResult, form, viewVars>>

\* The worker has opened the popup and it has not mounted yet.
Opening ==
  /\ popupLog # <<>>
  /\ popupLog[Len(popupLog)].ev = "open"
  /\ \A i \in 1..Len(popupLog) : popupLog[i].ev # "mounted"

\* Popup and OneClickOptimizer mount: the effect of popup.tsx 22-59 starts
\* its three reads, the effect of OneClickOptimizer.tsx 43-48 probes.
Popup_mount ==
  /\ Opening
  /\ popupLog' = Append(popupLog, [ev |-> "mounted", id |-> 0, text |-> ""])
  /\ popup' = [NoPopup EXCEPT !.reads = {"storage", "page", "background"}]
  /\ sent' = Append(sent, Get)
  /\ inflight' = inflight \cup {Pending("probe", "oneclick", "", 0, {})}
  /\ lastStep' = StepMsg("mount", "popup", "", <<>>)
  /\ UNCHANGED <<storage, popupRest>>

\* A callback of one of the reads, given text: setSelectedText(text) when
\* the text is non-empty (after trim, where the callback trims).  A changed
\* selectedText reaches OneClickOptimizer as initialText, whose effect then
\* sets the prompt field and probes again.
Popup_callback(read, text) ==
  /\ read \in popup.reads
  /\ IF Trim(text) # "" /\ text # popup.selectedText
       THEN /\ popup' = [popup EXCEPT !.reads = @ \ {read},
                                      !.selectedText = text,
                                      !.initialText = text,
                                      !.currentPrompt = text]
            /\ sent' = Append(sent, Get)
            /\ inflight' = inflight \cup
                 {Pending("probe", "oneclick", "", 0, {})}
       ELSE /\ popup' = [popup EXCEPT !.reads = @ \ {read}]
            /\ UNCHANGED <<sent, inflight>>
  /\ lastStep' = StepMsg("read", read, text, <<>>)
  /\ UNCHANGED <<storage, popupLog, popupRest>>

\* The callback of chrome.storage.local.get(['selectedText']), lines 26-32.
Popup_storageGet == Popup_callback("storage", storage)

\* The callback of chrome.tabs.sendMessage(GET_CHATGPT_TEXT), lines 40-48:
\* lastError when no page script answers, else the response of the page
\* script's listener.
Popup_chatTextReply(lastError) ==
  Popup_callback("page",
    IF ~lastError /\ isChatGPT /\ chatInputField # NoElem
      THEN value[chatInputField] ELSE "")

\* The callback of chrome.runtime.sendMessage(GET_LAST_TEXT), lines 53-58:
\* the worker answers with lastSelectedText.
Popup_lastTextReply == Popup_callback("background", lastSelectedText)

\* The handoffs of the worker, the page whose input the popup asks for, the
\* popup opened by the worker and the answers to its probes.
NextHandoff ==
  \/ \E m \in 1..MaxMsgs, text \in {LongA, LongB} :
       bg_onMessage(m, "OPEN_POPUP_WITH_TEXT", text)
  \/ \E m \in 1..MaxMsgs, text \in {LongA, LongB} :
       bg_contextMenuClicked(m, text)
  \/ \E w \in writes : bg_storageSetCallback(w)
  \/ \E e \in Elems, v \in {"", ShortText} : UserInput(e, v)
  \/ monitorInterval
  \/ Popup_mount
  \/ Popup_storageGet
  \/ \E lastError \in BOOLEAN : Popup_chatTextReply(lastError)
  \/ Popup_lastTextReply
  \/ \E r \in inflight, response \in {q \in Replies : q.data = NoData} :
       OneClick_testConnection_resume(r, response)

SpecHandoff == Init /\ [][NextHandoff]_vars

\* ===================================================================
\* Properties
\* ===================================================================

\* C1: at most one auto-optimize remote call is outstanding on a page, under
\* every interleaving of input events, timer firings, call completions,
\* re-location of the anchor and teardown.
C1_AtMostOneCall == Cardinality(calls) <= 1

\* C2: a remote call starts only once a full idle period has passed since
\* the last input event on the anchored element, whatever that event carried.
C2_CallAfterIdle ==
  lastStep.op = "callStart" => sinceLast >= DebounceTicks

\* C3: a qualifying input event on the anchored element (longer than the
\* minimum, different from the last seen text) that arrives while a call is
\* in flight leaves a debounce timer armed for the new text.
C3_InputDuringCallRearms ==
  [][(/\ lastStep'.op = "input"
      /\ isOptimizing /\ calls # {}
      /\ chatInputField # NoElem /\ chatInputField \in listeners
      /\ value'[chatInputField] # value[chatInputField]
      /\ TextLen[value'[chatInputField]] > MinLength
      /\ value'[chatInputField] # lastInputValue)
     => \E t \in timers' : t.text = value'[chatInputField]]_vars

\* C4: the input event dispatched by the trigger's own overwrite of the
\* field never arms the debounce timer.
C4_NoSelfArm == \A t \in timers : t.src # "own"

\* C5: when the remote call fails, the rest of the callback leaves every
\* textarea value as it was, dispatches no synthetic event, arms no timer
\* and ends with the in-flight flag false.
C5_FailureLeavesFieldUntouched ==
  [][lastStep'.op = "callFailed"
       => /\ value' = value
          /\ lastStep'.note # "dispatched"
          /\ UNCHANGED trigVars
          /\ ~isOptimizing']_vars

\* A failed call has returned and the anchored field still holds the text
\* that was sent.
C5_Witness ==
  /\ lastStep.op = "callFailed"
  /\ ~isOptimizing
  /\ chatInputField # NoElem
  /\ value[chatInputField] = lastInputValue
  /\ lastInputValue # ""

\* The single response to the REPLACE_CHATGPT_TEXT message just handled.
ReplaceReply == lastStep.replies[1]

\* C6: every REPLACE_CHATGPT_TEXT message is answered exactly once; without
\* a located input the answer is a failure naming "not found", with one the
\* input holds the message text and the answer is a success.
C6_ReplaceAnswered ==
  (lastStep.op = "message" /\ lastStep.note = "REPLACE_CHATGPT_TEXT")
    => /\ Len(lastStep.replies) = 1
       /\ IF chatInputField = NoElem
            THEN ReplaceReply = [success |-> FALSE,
                                 error |-> "ChatGPT input not found"]
            ELSE /\ ReplaceReply.success
                 /\ value[chatInputField] = lastStep.arg

TornDown ==
  /\ ~buttonDiv /\ ~tooltipDiv /\ inDocument = {}
  /\ chatInputField = NoElem
  /\ lastInputValue = ""
  /\ ~isOptimizing
  /\ timers = {} /\ optimizationTimeout = Null

\* C7: the teardown leaves no injected control, no anchor, no last seen
\* text, no in-flight flag and no pending timer, and a second teardown right
\* after the first changes nothing.
C7_TeardownComplete ==
  /\ [](lastStep.op = "cleanup" => TornDown)
  /\ [][(lastStep.op = "cleanup" /\ lastStep'.op = "cleanup")
          => UNCHANGED <<pageVars, timers>>]_vars

\* The teardown ran while a remote call was outstanding.
C7_Witness == lastStep.op = "cleanup" /\ calls # {} /\ TornDown

\* C8: a click, or the message send that follows it, made while the
\* liveness check is false skips its storage write or message: nothing is
\* written, nothing is sent and no exception or rejection leaves the handler.
C8_LivenessGuard ==
  [][(lastStep'.op \in {"click", "send"} /\ ~isExtensionContextValid)
       => /\ lastStep'.note = "skipped"
          /\ lastStep'.replies = <<>>
          /\ storage' = storage
          /\ \A k \in clicks' : k.pc = "storing" => k \in clicks]_vars

\* C9: a storage write or runtime message that fails because the context
\* was invalidated is turned into the teardown, and its caller sees no
\* rejection.
C9_FailureBecomesTeardown ==
  (/\ lastStep.op \in {"click", "stored", "send"}
   /\ chromeState # "ok"
   /\ lastStep.note # "skipped")
    => /\ lastStep.note # "rejected"
       /\ ~isExtensionValid
       /\ ~buttonDiv /\ chatInputField = NoElem

\* What the worker did for event m, in order.
EventsOf(m) == SelectSeq(popupLog, LAMBDA x : x.id = m)

\* C10: for every OPEN_POPUP_WITH_TEXT request the worker has either done
\* nothing visible yet, or completed the write of the request's text, then
\* opened the popup, and acknowledged once.
C10_WriteThenOpenThenAck ==
  \A m \in 1..MaxMsgs :
    requests[m].type = "OPEN_POPUP_WITH_TEXT"
      => \/ /\ EventsOf(m) = <<>>
            /\ acks[m] = <<>>
            /\ \E w \in writes : w.id = m /\ w.text = requests[m].text
         \/ /\ EventsOf(m) =
                 <<[ev |-> "written", id |-> m, text |-> requests[m].text],
                   [ev |-> "open", id |-> m, text |-> ""]>>
            /\ acks[m] = <<[success |-> TRUE]>>
            /\ \A w \in writes : w.id # m

\* Two requests with different texts were both written and acknowledged.
C10_Witness ==
  \E m, n \in 1..MaxMsgs :
    /\ m # n
    /\ requests[m].type = "OPEN_POPUP_WITH_TEXT"
    /\ requests[n].type = "OPEN_POPUP_WITH_TEXT"
    /\ requests[m].text # requests[n].text
    /\ Len(acks[m]) = 1 /\ Len(acks[n]) = 1
    /\ storage = requests[m].text

\* C11: with no handoff write still pending, the answer to the GET_LAST_TEXT
\* request just handled is the text of the most recent handoff write, which
\* is the value stored under selectedText.
C11_LastTextIsHandoff ==
  (lastStep.op = "bgMessage" /\ lastStep.note = "GET_LAST_TEXT"
     /\ writes = {})
    => \A m \in 1..MaxMsgs :
         (requests[m].type = "GET_LAST_TEXT" /\ acks[m] # <<>>)
           => acks[m] = <<[text |-> storage]>>

\* The anchored input's value when an anchor is present and its value is
\* non-empty, otherwise the given selection text.
InputElse(selectionText) ==
  IF chatInputField # NoElem /\ value[chatInputField] # ""
    THEN value[chatInputField] ELSE selectionText

\* A popup-open request is dispatched only for a click whose text is already
\* in the handoff store, and carries that text.
SentAfterWrite ==
  (lastStep'.op = "send" /\ lastStep'.replies # <<>>)
    => \E k \in clicks \ clicks' :
         /\ lastStep'.replies =
              <<[type |-> "OPEN_POPUP_WITH_TEXT", text |-> k.text]>>
         /\ \/ k.stored
            \/ k.pc = "storing" /\ storage' = k.text

\* C12 as stated: a click that starts a handoff captures the anchored
\* input's non-empty value, otherwise the page selection as it is, otherwise
\* the empty string; the request is sent only after the write.
C12_CaptureSelectionAsIs ==
  [][/\ (lastStep'.op = "click" /\ clicks' # clicks)
          => \E k \in clicks' \ clicks :
               k.text = InputElse(lastStep'.arg) /\ ~k.stored
     /\ SentAfterWrite]_vars

\* C12: a click that starts a handoff captures the anchored input's
\* non-empty value, otherwise the page selection with leading and trailing
\* whitespace removed (empty when the selection is blank), otherwise the empty
\* string; the popup-open request carries that text and is sent only after
\* the text was written to the handoff store.
C12_CaptureTrimmedSelection ==
  [][/\ (lastStep'.op = "click" /\ clicks' # clicks)
          => \E k \in clicks' \ clicks :
               k.text = InputElse(Trim(lastStep'.arg)) /\ ~k.stored
     /\ SentAfterWrite]_vars

\* A click with a whitespace-padded selection and no text in the anchored
\* input started a handoff of the trimmed selection.
C12_Witness ==
  /\ lastStep.op = "click" /\ lastStep.arg = Padded
  /\ chatInputField = NoElem \/ value[chatInputField] = ""
  /\ \E k \in clicks : k.text = ShortText

\* Visible as the locator's contract has it: attached, not hidden by display
\* or visibility styling, wider and higher than the thresholds.
Visible(element) ==
  /\ element.box.offsetParent
  /\ element.box.display # "none" /\ element.box.visibility # "hidden"
  /\ element.box.width > 100 /\ element.box.height > 20

\* Node i is the first visible node in strategy order: it is visible, no
\* earlier selector has a visible node, and no earlier node of its first
\* selector with one is visible.
FirstVisible(i) ==
  \E k \in 1..Len(selectors) :
    /\ i \in querySelectorAll(selectors[k]) /\ Visible(document[i])
    /\ \A j \in querySelectorAll(selectors[k]) :
         Visible(document[j]) => i <= j
    /\ \A h \in 1..(k - 1) : \A j \in querySelectorAll(selectors[h]) :
         ~Visible(document[j])

\* C13: a search returns the first visible node in strategy order, and null
\* exactly when the document has no visible node.
C13_FirstVisibleMatch ==
  lastStep.op \in {"find", "content_find"}
    => IF \E i \in 1..Len(document) : Visible(document[i])
         THEN found # NoElem /\ FirstVisible(found)
         ELSE found = NoElem

\* C14: after the positioner ran with an anchor, the control's box lies
\* within the viewport less the padding on all four sides.
C14_InsideViewport ==
  lastStep.op \in {"place", "content_place"}
    => /\ buttonStyle.left >= buttonStyle.padding
       /\ buttonStyle.left + buttonStyle.buttonSize
            <= window.innerWidth - buttonStyle.padding
       /\ buttonStyle.top >= buttonStyle.padding
       /\ buttonStyle.top + buttonStyle.buttonSize
            <= window.innerHeight - buttonStyle.padding

\* C15: a call of the client's optimize, or of a popup handler that calls
\* it, with an empty or whitespace-only text makes no HTTP request and
\* reports an error at once: the client by rejecting, the popup in its
\* error state.
C15_BlankNotSent ==
  [][(lastStep'.op \in {"optimizePrompt", "handleOptimize"}
        /\ Trim(lastStep'.arg) = "")
       => /\ sent' = sent
          /\ inflight' = inflight
          /\ CASE lastStep'.note = "client" -> apiResult'.threw
               [] lastStep'.note = "oneclick" -> popup'.error # <<>>
               [] OTHER -> form'.error # <<>>]_vars

\* C16: testConnection never rejects; it resolves to true when the probe
\* request got a 2xx response and to false for every other outcome.
C16_ProbeNeverThrows ==
  apiResult.op = "probe"
    => /\ ~apiResult.threw
       /\ apiResult.value = (apiResult.response.kind = "ok")

\* A probe answered with status 500 resolved to false.
C16_Witness ==
  /\ apiResult.op = "probe"
  /\ apiResult.response.kind = "http" /\ apiResult.response.status = 500
  /\ ~apiResult.threw /\ ~apiResult.value

\* The pieces of the first message a response body carries, in the order
\* detail, error, message, or of the default naming the status.
Extracted(response) ==
  IF response.data.detail # "" THEN {response.data.detail}
  ELSE IF response.data.error # "" THEN {response.data.error}
  ELSE IF response.data.message # "" THEN {response.data.message}
  ELSE {"Server error: ", ToString(response.status)}

Pieces(message) == {message[i] : i \in 1..Len(message)}

\* C17: a failed optimize rejects with one error: for a response of non-2xx
\* status, a message that carries the status and the first message of the
\* body (or the default naming the status); for no response, the message
\* that the server is unreachable, which names no status.
C17_FailureClassified ==
  (apiResult.op = "optimize" /\ apiResult.response.kind \in {"http", "none"})
    => /\ apiResult.threw
       /\ IF apiResult.response.kind = "http"
            THEN /\ apiResult.message[1] = "API Error ("
                 /\ ToString(apiResult.response.status)
                      \in Pieces(apiResult.message)
                 /\ Extracted(apiResult.response)
                      \subseteq Pieces(apiResult.message)
            ELSE apiResult.message =
                   <<"No response from server. Please check if the API server is running on localhost:8000">>

\* A response of status 429 with only a message field in its body was
\* classified, and the error carries that message.
C17_Witness ==
  /\ apiResult.op = "optimize" /\ apiResult.threw
  /\ apiResult.response.status = 429
  /\ apiResult.response.data.message = "Too many requests"
  /\ apiResult.response.data.error = ""
  /\ "Too many requests" \in Pieces(apiResult.message)

\* C20: a view that rendered a result shows the optimized overall score
\* the server returned and, as improvement, that score minus the original
\* overall score.
C20_DeltaIsDifference ==
  lastStep.op \in {"DynamicRefinement", "ResultViewer"}
    => /\ scoreOverview.optimized = result.optimized
       /\ scoreOverview.improvement = result.optimized - result.original

AtCorner == placement.leftTop = NoElem /\ placement.rightBottom

\* C19: after a reposition the control is at the fixed corner exactly when
\* the anchor is null, and placed by the anchor's rect otherwise; when the
\* locator finds no input, the anchor is null and the control at the corner.
C19_AnchoredOrFallback ==
  lastStep.op \in {"scroll", "navigate"}
    => /\ (chatInputField = NoElem) = AtCorner
       /\ chatInputField # NoElem => placement.leftTop = chatInputField
       /\ found = NoElem => chatInputField = NoElem /\ AtCorner

\* C21: once the popup has processed a server response, whichever of its
\* fields are left out, its render does not throw: the state it shows holds a
\* default for each missing field, or the error the response was turned into.
C21_AbsentFieldsSafe ==
  lastStep.op = "resumed"
    => /\ OneClick_render(popup) = "ok"
       /\ apiResult.response.data.optimized_prompt = Absent
            => \/ popup.error # <<>>
               \/ popup.currentPrompt # Absent

\* C22: every pending debounce timer is the one the last arming input event
\* set, and carries the text that event recorded as last seen; the firing
\* that starts a remote call sends that text, and a timer that was superseded
\* or cleared is no longer pending, so it starts nothing.
C22_CallSendsLastSeenText ==
  /\ [](\A t \in timers :
          t.id = optimizationTimeout /\ t.text = lastInputValue)
  /\ [][lastStep'.op = "callStart"
          => \E t \in timers \ timers', c \in calls' \ calls :
               /\ t.id = optimizationTimeout
               /\ c.text = t.text /\ c.text = lastInputValue
               /\ lastInputValue' = lastInputValue]_vars

\* A call was started with the last seen text although the anchored field
\* holds another text by now: a later input event did not arm.
C22_Witness ==
  /\ lastStep.op = "callStart"
  /\ chatInputField # NoElem
  /\ value[chatInputField] # lastInputValue
  /\ \E c \in calls : c.text = lastInputValue

\* C23: when an auto-optimize call succeeds with an input anchored, the
\* field is overwritten with the optimized text, and the synthetic events are
\* dispatched, exactly when that text differs from the value the field holds
\* as the result arrives; when the two are equal nothing is written or
\* dispatched.
C23_OverwriteIffDiffersFromLive ==
  [][(lastStep'.op = "callOk" /\ chatInputField # NoElem)
       => IF lastStep'.arg # value[chatInputField]
            THEN /\ value'[chatInputField] = lastStep'.arg
                 /\ lastStep'.note = "dispatched"
            ELSE /\ value' = value
                 /\ lastStep'.note # "dispatched"]_vars

\* C24: a reposition on the mount burst, on scroll or on resize, and every
\* step of the debounced trigger, leave the anchor as it was; only the
\* monitor replaces it.
C24_OnlyMonitorReplacesAnchor ==
  [][lastStep'.op \in {"burst", "scroll", "input", "tick", "callStart",
                       "timerSkip", "callOk", "callFailed"}
       => chatInputField' = chatInputField]_vars

\* Whether the control fits beside the anchor rect on the given side, at
\* the distance the script keeps from the anchor and from the viewport edge.
HasRoom(side) ==
  LET rect == window.rect
      need == buttonStyle.buttonSize + buttonStyle.gap
  IN CASE side = "right" ->
            rect.left + rect.width + need
              <= window.innerWidth - buttonStyle.margin
       [] side = "left" -> rect.left - need >= buttonStyle.margin
       [] side = "above" -> rect.top - need >= buttonStyle.margin
       [] side = "below" ->
            rect.top + rect.height + need
              <= window.innerHeight - buttonStyle.margin

\* C25: the placement an anchored reposition chose is the first of right,
\* left, above, below that has room, and the corner exactly when none has.
C25_FirstCandidateWithRoom ==
  lastStep.op \in {"place", "content_place"}
    => LET order == <<"right", "left", "above", "below">>
           withRoom == {i \in 1..4 : HasRoom(order[i])}
       IN IF withRoom = {}
            THEN buttonStyle.chosen = "corner"
            ELSE buttonStyle.chosen =
                   order[CHOOSE i \in withRoom : \A j \in withRoom : i <= j]

\* C26: a failed optimize or refine call of a popup component starts a
\* connection test, and when a connection test of a component completes (that
\* one, or one its user asked for) the component's connectivity indicator
\* equals the boolean the test resolved to.
C26_ProbeRefreshesIndicator ==
  /\ [][(lastStep'.op = "resumed" /\ apiResult'.threw)
          => \E q \in inflight' \ inflight : q.op = "probe"]_vars
  /\ [](lastStep.op = "probed"
          => apiResult.value =
               IF lastStep.note \in {"oneclick", "oneclick_catch"}
                 THEN popup.isConnected ELSE form.isConnected)

\* C27: once the teardown has run, in every later state the control and the
\* tooltip are out of the page, the anchor is null and no debounce timer is
\* pending, and no step starts a remote call.
C27_TeardownStays ==
  /\ [](~isExtensionValid
          => /\ ~buttonDiv /\ ~tooltipDiv /\ inDocument = {}
             /\ chatInputField = NoElem
             /\ timers = {})
  /\ [][~isExtensionValid => lastStep'.op # "callStart"]_vars

\* C28: when the popup has mounted after a handoff write of a non-empty
\* text, no write was completed or is pending since, and its three reads have
\* all been called back, the text it presents is the text of that write.
C28_PopupPresentsHandoff ==
  (/\ popupLog # <<>> /\ popupLog[Len(popupLog)].ev = "mounted"
   /\ writes = {}
   /\ popup.reads = {}
   /\ storage # "")
    => /\ popup.selectedText = storage
       /\ popup.currentPrompt = storage

\* The nodes whose input events reach the arming test of the listener: the
\* nodes that carry it, while the page is the chat page and an anchor is set.
CanArm ==
  IF isChatGPT /\ chatInputField # NoElem THEN listeners ELSE {}

\* C29: on the chat page the nodes whose input events can arm the debounce
\* timer are exactly the anchor: the listener is on the anchor whenever there
\* is one, and on no node that was anchored before.
C29_ListenerOnAnchorOnly ==
  isChatGPT
    => CanArm = IF chatInputField # NoElem THEN {chatInputField} ELSE {}

\* C30: in the popup optimizer currentIteration is the number of history
\* items, and the items, newest first, are numbered from currentIteration
\* down to 1.
C30_IterationsMatchHistory ==
  LET history == popup.optimizationHistory IN
    /\ popup.currentIteration = Len(history)
    /\ \A i \in 1..Len(history) :
         history[i].iteration = Len(history) - i + 1

====
